---- MODULE Spec2Model ----
(***************************************************************************)
(* A model of trav, a terminal file browser (src/src/app.rs, entry.rs,     *)
(* main.rs).  The state is the TravApp struct plus the position of main's  *)
(* event loop; there is one action per arm of TravApp::handle_event, and   *)
(* one for TravApp::new.  The filesystem is a fixed tree; each I/O call of  *)
(* a handler succeeds or fails on its own: a directory that cannot be      *)
(* opened, a directory stream that breaks at one of its items, a metadata  *)
(* query that fails, a file that cannot be opened, a launcher that cannot  *)
(* be spawned.                                                             *)
(***************************************************************************)
EXTENDS Integers, Sequences, FiniteSets, TLC

VARIABLES
    pc,             \* position of main: "init", "draw", "loop" (in handle_event),
                    \* "done" (Ok), "failed" (Err)
    cwd_path,       \* TravApp.cwd_path
    cwd_entries,    \* TravApp.cwd_entries : StatefulList<DirEntry>
    cwd_idx,        \* TravApp.cwd_idx
    parent,         \* TravApp.parent
    parent_idx,     \* TravApp.parent_idx
    child_entries,  \* TravApp.child_entries
    content,        \* TravApp.content
    exit,           \* TravApp.exit
    err,            \* TravApp.err
    last            \* history: the handler that has just returned, its outcome
                    \* and its pre-state; none while main waits for an event

vars == <<pc, cwd_path, cwd_entries, cwd_idx, parent, parent_idx,
          child_entries, content, exit, err, last>>

-----------------------------------------------------------------------------
(* Option<T>: None is the empty sequence, Some(x) the one-element sequence. *)

None == <<>>

Some(x) == <<x>>

Unwrap(o) == o[1]

Min(a, b) == IF a < b THEN a ELSE b

-----------------------------------------------------------------------------
(* Paths are sequences of components; the empty sequence is "/".           *)

Root == <<>>

\* Path::parent(): None for the root, else the path without its last component.
PathParent(p) == IF p = Root THEN None ELSE Some(SubSeq(p, 1, Len(p) - 1))

LastName(p) == p[Len(p)]

-----------------------------------------------------------------------------
(* The filesystem the program runs on: a fixed tree.                       *)
(*   /          dir   d l g b                                              *)
(*   /d         dir   e                                                    *)
(*   /d/e       dir   (empty)                                              *)
(*   /l         symlink -> /d                                              *)
(*   /g         file  3 lines, the second not valid UTF-8                  *)
(*   /b         symlink -> (nothing)                                       *)

RealPaths == { Root, <<"d">>, <<"l">>, <<"g">>, <<"b">>, <<"d", "e">> }

NodeKind(q) ==
    CASE q \in { Root, <<"d">>, <<"d", "e">> } -> "dir"
      [] q = <<"g">> -> "file"
      [] OTHER -> "symlink"

\* The directory stream of a real directory, in stream order.
NodeNames(q) ==
    CASE q = Root -> <<"d", "l", "g", "b">>
      [] q = <<"d">> -> <<"e">>
      [] OTHER -> <<>>

\* The target of a symlink (None: dangling).
NodeTarget(q) == IF q = <<"l">> THEN Some(<<"d">>) ELSE None

\* A line of a file is a positive number; BadLine is a line that does not decode.
BadLine == 0 - 1

NL == 0

NodeLines(q) ==
    CASE q = <<"g">> -> <<21, BadLine, 23>>
      [] OTHER -> <<>>

\* The paths the program can name.
LexPaths == { Root, <<"d">>, <<"l">>, <<"g">>, <<"b">>, <<"d", "e">>, <<"l", "e">> }

\* Whether r, the node a path names (None: no such node), is of kind k.
IsKind(r, k) == r # None /\ NodeKind(Unwrap(r)) = k

\* The node called name in the directory par, None when there is none.
Child(par, name) ==
    IF par = None \/ Append(Unwrap(par), name) \notin RealPaths THEN None
    ELSE Some(Append(Unwrap(par), name))

RECURSIVE Resolve(_)

\* The real node a path names, its last component not followed (as lstat does).
LResolve(p) ==
    IF p = Root THEN Some(Root)
    ELSE Child(Resolve(Unwrap(PathParent(p))), LastName(p))

\* The node q with the symlinks it starts followed to their end (None:
\* dangling).
FollowLink(q) ==
    IF ~IsKind(q, "symlink") THEN q
    ELSE IF NodeTarget(Unwrap(q)) = None THEN None
    ELSE Resolve(Unwrap(NodeTarget(Unwrap(q))))

\* The real node a path names, following every symlink (as read_dir and open do).
Resolve(p) == FollowLink(LResolve(p))

IsDirPath(p) == IsKind(Resolve(p), "dir")

-----------------------------------------------------------------------------
(* Injected I/O failures: a set of triples <<operation, path, errno>>, the *)
(* operation one of "read_dir" (the directory cannot be opened), "dirent"  *)
(* (the read of that item of its directory's stream fails), "metadata",    *)
(* "open" and "spawn".  The sets a handler is run with are defined with    *)
(* the handlers.                                                           *)

\* The errnos injected.
Errnos == {"EACCES", "ENOENT"}

\* io::Error::to_string(): the text of the errno and its number, nothing of
\* the operation that failed or of its path.
IoError(errno) ==
    CASE errno = "EACCES" -> "Permission denied (os error 13)"
      [] errno = "ENOENT" -> "No such file or directory (os error 2)"
      [] errno = "ENOTDIR" -> "Not a directory (os error 20)"

Ok(v) == [ok |-> TRUE, val |-> v]

Err(e) == [ok |-> FALSE, err |-> e]

\* Whether op on p fails under F.
Fails(op, p, F) == \E f \in F : f[1] = op /\ f[2] = p

\* The errno op on p fails with under F, None when it does not fail.
Failure(op, p, F) ==
    IF Fails(op, p, F) THEN Some((CHOOSE f \in F : f[1] = op /\ f[2] = p)[3])
    ELSE None

\* DirEntry::metadata(): an lstat of the entry, r the node it names.
Lstat(fail, r) ==
    IF fail # None THEN Err(IoError(Unwrap(fail)))
    ELSE IF r = None THEN Err(IoError("ENOENT"))
    ELSE Ok(NodeKind(Unwrap(r)))

Metadata(e, F) == Lstat(Failure("metadata", e, F), LResolve(e))

\* fs::File::open(path) and the lines BufReader::lines() yields, r the node
\* the path names.
Opened(fail, r) ==
    IF fail # None THEN Err(IoError(Unwrap(fail)))
    ELSE IF r = None THEN Err(IoError("ENOENT"))
    ELSE Ok(NodeLines(Unwrap(r)))

FileOpen(e, F) == Opened(Failure("open", e, F), Resolve(e))

\* process::Command::new("xdg-open").spawn()
Spawned(fail) == IF fail # None THEN Err(IoError(Unwrap(fail))) ELSE Ok(TRUE)

Spawn(e, F) == Spawned(Failure("spawn", e, F))

-----------------------------------------------------------------------------
(* entry.rs: a DirEntry is modelled by its path (fs::DirEntry::path()).     *)

\* The directory stream fs::read_dir(p) iterates over.
Items(p, names) == [i \in 1..Len(names) |-> Append(p, names[i])]

StreamOf(p) == IF IsDirPath(p) THEN Items(p, NodeNames(Unwrap(Resolve(p)))) ELSE <<>>

\* fs::read_dir(p), r the node p names: fails when the directory cannot be
\* opened.
Opendir(fail, p, r) ==
    IF fail # None THEN Err(IoError(Unwrap(fail)))
    ELSE IF r = None THEN Err(IoError("ENOENT"))
    ELSE IF ~IsKind(r, "dir") THEN Err(IoError("ENOTDIR"))
    ELSE Ok(Items(p, NodeNames(Unwrap(r))))

ReadDir(p, F) == Opendir(Failure("read_dir", p, F), p, Resolve(p))

\* The items of the stream all that come before the first one whose read
\* fails.
BeforeFailure(all, F) ==
    LET bad == { i \in 1..Len(all) : Fails("dirent", all[i], F) }
    IN  SubSeq(all, 1, IF bad = {} THEN Len(all)
                       ELSE (CHOOSE i \in bad : \A j \in bad : i <= j) - 1)

\* get_ok_entries(path): Err when read_dir itself fails; else the items the
\* stream yields as Ok, in stream order.  fs::ReadDir yields the failure of an
\* item once and then ends, so the loop sees the items before the first one
\* whose read fails and none after it.
Collected(rd, F) == IF ~rd.ok THEN rd ELSE Ok(BeforeFailure(rd.val, F))

get_ok_entries(path, F) == Collected(ReadDir(path, F), F)

-----------------------------------------------------------------------------
(* util/list.rs: StatefulList<T>, an ordered sequence with an optional      *)
(* selected index (0-based).                                                *)

\* StatefulList::new()
ListNew == [items |-> <<>>, sel |-> None]

\* StatefulList::with_items(items): index 0 selected when non-empty.
with_items(items) ==
    [items |-> items, sel |-> IF Len(items) > 0 THEN Some(0) ELSE None]

\* StatefulList::select(idx): None clears; Some(i) past the end selects the last
\* index; an empty list has no selection.
select(l, idx) ==
    [l EXCEPT !.sel =
        IF idx = None \/ Len(l.items) = 0 THEN None
        ELSE Some(Min(Unwrap(idx), Len(l.items) - 1))]

\* StatefulList::current_idx()
current_idx(l) == l.sel

\* StatefulList::current()
current(l) == IF l.sel = None THEN None ELSE Some(l.items[Unwrap(l.sel) + 1])

\* A cursor that stops at the last index instead of wrapping.
next_sels_stopping(l) ==
    IF Len(l.items) = 0 THEN {None}
    ELSE IF l.sel = None THEN { Some(i) : i \in 0..(Len(l.items) - 1) }
    ELSE {Some(Min(Unwrap(l.sel) + 1, Len(l.items) - 1))}

\* StatefulList::next(): the selections it can leave.  One step forward,
\* wrapping; None on an empty list.  What it selects in a non-empty list with no
\* selection is not fixed by the specification: any valid index.
next_sels(l) ==
    IF Len(l.items) = 0 THEN {None}
    ELSE IF l.sel = None THEN { Some(i) : i \in 0..(Len(l.items) - 1) }
    ELSE {Some((Unwrap(l.sel) + 1) % Len(l.items))}

\* StatefulList::previous(): one step back, wrapping.
previous_sels(l) ==
    IF Len(l.items) = 0 THEN {None}
    ELSE IF l.sel = None THEN { Some(i) : i \in 0..(Len(l.items) - 1) }
    ELSE {Some((Unwrap(l.sel) + Len(l.items) - 1) % Len(l.items))}

-----------------------------------------------------------------------------
(* app.rs: TravApp.  The operators below work on a record of the struct's   *)
(* fields and return [app, ok, raised]: the struct after the call, whether  *)
(* the call returned Ok, and the messages it stored in err.                 *)

App == [cwd_path |-> cwd_path, cwd_entries |-> cwd_entries, cwd_idx |-> cwd_idx,
        parent |-> parent, parent_idx |-> parent_idx,
        child_entries |-> child_entries, content |-> content,
        exit |-> exit, err |-> err]

Ret(a, ok, raised) == [app |-> a, ok |-> ok, raised |-> raised]

\* An error message stored in err, with the operation it came from.
Raised(op, msg) == [op |-> op, msg |-> msg]

\* The number of lines handle_current_entry reads: reader.lines().take(128)
TakeLines == 128

\* The String built without take(128): every line of the file is read.
Snippet_untaken(lines) ==
    LET IsOkLine(x) == x # BadLine
        good == SelectSeq(lines, IsOkLine)
    IN  [i \in 1..(2 * Len(good)) |-> IF i % 2 = 1 THEN good[(i + 1) \div 2] ELSE NL]

\* The String built at app.rs:101-107: every taken line that decoded, each
\* followed by '\n'.
Snippet(lines) ==
    LET taken == SubSeq(lines, 1, Min(Len(lines), TakeLines))
        IsOkLine(x) == x # BadLine
        good == SelectSeq(taken, IsOkLine)
    IN  [i \in 1..(2 * Len(good)) |-> IF i % 2 = 1 THEN good[(i + 1) \div 2] ELSE NL]

\* load_entries clearing the selection when the requested index is past the
\* end.
load_entries_unclamped(a, path, idx, F) ==
    LET r1 == get_ok_entries(path, F)
    IN  IF ~r1.ok THEN Ret(a, FALSE, {})
        ELSE
        LET a1 == [a EXCEPT !.cwd_entries = with_items(r1.val)]
            pp == PathParent(path)
            r2 == get_ok_entries(Unwrap(pp), F)
        IN  IF pp # None /\ ~r2.ok THEN Ret(a1, FALSE, {})
            ELSE
            LET a2 == IF pp # None
                      THEN [a1 EXCEPT !.parent =
                                Some([path |-> Unwrap(pp), entries |-> r2.val])]
                      ELSE a1
                l3 == IF idx # None /\ Unwrap(idx) >= Len(a2.cwd_entries.items)
                      THEN select(a2.cwd_entries, None)
                      ELSE select(a2.cwd_entries, idx)
            IN  Ret([a2 EXCEPT !.cwd_path = path,
                               !.cwd_entries = l3,
                               !.cwd_idx = current_idx(l3)], TRUE, {})

\* TravApp::load_entries(path, idx)
load_entries(a, path, idx, F) ==
    LET r1 == get_ok_entries(path, F)
    IN  IF ~r1.ok THEN Ret(a, FALSE, {})
        ELSE
        LET a1 == [a EXCEPT !.cwd_entries = with_items(r1.val)]
            pp == PathParent(path)
            r2 == get_ok_entries(Unwrap(pp), F)
        IN  IF pp # None /\ ~r2.ok THEN Ret(a1, FALSE, {})
            ELSE
            LET a2 == IF pp # None
                      THEN [a1 EXCEPT !.parent =
                                Some([path |-> Unwrap(pp), entries |-> r2.val])]
                      ELSE a1
                l3 == select(a2.cwd_entries, idx)
            IN  Ret([a2 EXCEPT !.cwd_path = path,
                               !.cwd_entries = l3,
                               !.cwd_idx = current_idx(l3)], TRUE, {})

\* restart_err with the reset forgotten: the error is left standing.
restart_err_kept(a) == a

\* TravApp::restart_err()
restart_err(a) == IF a.err # None THEN [a EXCEPT !.err = None] ELSE a

\* TravApp::handle_current_entry()
handle_current_entry(a, F) ==
    LET cur == current(a.cwd_entries)
    IN  IF cur = None THEN Ret(a, TRUE, {})
        ELSE
        LET entry == Unwrap(cur)
            md == Metadata(entry, F)
        IN  IF ~md.ok
            THEN Ret([a EXCEPT !.err = Some(md.err)], TRUE, {Raised("metadata", md.err)})
            ELSE IF md.val = "dir"
            THEN LET r == get_ok_entries(entry, F)
                 IN  IF r.ok
                     THEN Ret([a EXCEPT !.child_entries = Some(r.val)], TRUE, {})
                     ELSE Ret(a, FALSE, {})
            ELSE IF md.val = "symlink"
            THEN LET r == get_ok_entries(entry, F)
                 IN  IF r.ok
                     THEN Ret([a EXCEPT !.child_entries = Some(r.val)], TRUE, {})
                     ELSE Ret(a, TRUE, {})
            ELSE IF md.val = "file"
            THEN LET f == FileOpen(entry, F)
                 IN  IF f.ok
                     THEN Ret([a EXCEPT !.content = Some(Snippet(f.val)),
                                        !.child_entries = None,
                                        !.err = None], TRUE, {})
                     ELSE Ret(a, TRUE, {})
            ELSE Ret(a, TRUE, {})

\* TravApp::next_entry(), with s the selection StatefulList::next() leaves.
next_entry(a, s) == [a EXCEPT !.cwd_entries.sel = s, !.cwd_idx = s]

\* TravApp::prev_entry(), with s the selection StatefulList::previous() leaves.
prev_entry(a, s) == [a EXCEPT !.cwd_entries.sel = s, !.cwd_idx = s]

\* A handler's result, with the arm of the match it took.
Arm(r, branch) ==
    [app |-> r.app, ok |-> r.ok, raised |-> r.raised, branch |-> branch]

\* r1 then r2, the messages of both collected.
Then(r1, r2) == Ret(r2.app, r2.ok, r1.raised \cup r2.raised)

\* The quit arm resetting the error first, as the navigation arms do.
key_quit_clearing(a) ==
    Arm(Ret([restart_err(a) EXCEPT !.exit = TRUE], TRUE, {}), "quit")

\* handle_event, Key::Char('q')
key_quit(a) == Arm(Ret([a EXCEPT !.exit = TRUE], TRUE, {}), "quit")

\* Key::Left reloading the current directory when there is no parent.
key_left_reloading(a, F, H) ==
    LET a0 == restart_err(a)
        pp == PathParent(a0.cwd_path)
        to == IF pp # None THEN Unwrap(pp) ELSE a0.cwd_path
        ld == load_entries(a0, to, a0.parent_idx, F)
    IN  IF ~ld.ok THEN Arm(ld, "load_failed")
        ELSE
        LET h == handle_current_entry(ld.app, H)
        IN  IF ~h.ok THEN Arm(h, "preview_failed")
            ELSE Arm(Ret([h.app EXCEPT !.parent_idx = None], TRUE, h.raised),
                     IF pp # None THEN "ascended" ELSE "root")

\* handle_event, Key::Left: F the failures load_entries meets, H those
\* handle_current_entry meets.
key_left(a, F, H) ==
    LET a0 == restart_err(a)
        pp == PathParent(a0.cwd_path)
        ld == load_entries(a0, Unwrap(pp), a0.parent_idx, F)
    IN  IF pp # None /\ ~ld.ok THEN Arm(ld, "load_failed")
        ELSE
        LET a1 == IF pp # None THEN ld.app ELSE a0
            h == handle_current_entry(a1, H)
        IN  IF ~h.ok THEN Arm(h, "preview_failed")
            ELSE Arm(Ret([h.app EXCEPT !.parent_idx = None], TRUE, h.raised),
                     IF pp # None THEN "ascended" ELSE "root")

\* handle_event, Key::Down
key_down(a, F, s) ==
    Arm(handle_current_entry(next_entry(restart_err(a), s), F), "moved")

\* handle_event, Key::Up
key_up(a, F, s) ==
    Arm(handle_current_entry(prev_entry(restart_err(a), s), F), "moved")

\* handle_event, Key::Right | Key::Char('\n'): the directory and symlink arms
\* once load_entries returned Ok (app.rs:156-158 and 162-164).
descend_into(ld, idx, H, branch) ==
    LET h == handle_current_entry(ld.app, H)
    IN  IF ~h.ok THEN Arm(h, "preview_failed")
        ELSE Arm(Ret([h.app EXCEPT !.parent_idx = idx], TRUE, h.raised), branch)

\* The regular-file arm with the directory arm's bookkeeping copied into it: the
\* selection index is recorded as return index although nothing was entered.
open_file_recording(a0, entry, F, H) ==
    LET sp == Spawn(entry, F)
        a1 == [a0 EXCEPT !.parent_idx = a0.cwd_idx]
    IN  IF ~sp.ok
        THEN Then(Ret(a1, TRUE, {Raised("spawn", sp.err)}),
                  handle_current_entry([a1 EXCEPT !.err = Some(sp.err)], H))
        ELSE handle_current_entry(a1, H)

\* handle_event, Key::Right | Key::Char('\n'), regular file (app.rs:166-176):
\* spawn xdg-open, keep the error if it fails, then handle_current_entry.
open_file(a0, entry, F, H) ==
    LET sp == Spawn(entry, F)
    IN  IF ~sp.ok
        THEN Then(Ret(a0, TRUE, {Raised("spawn", sp.err)}),
                  handle_current_entry([a0 EXCEPT !.err = Some(sp.err)], H))
        ELSE handle_current_entry(a0, H)

\* handle_event, Key::Right | Key::Char('\n'): F the failures met before
\* handle_current_entry is called, H those handle_current_entry meets.
key_right(a, F, H) ==
    LET a0 == restart_err(a)
        cur == current(a0.cwd_entries)
        entry == Unwrap(cur)
        md == Metadata(entry, F)
        idx == a0.cwd_idx
        ld == load_entries(a0, entry, Some(0), F)
    IN  IF cur = None THEN Arm(handle_current_entry(a0, H), "no_selection")
        ELSE IF ~md.ok THEN Arm(handle_current_entry(a0, H), "no_metadata")
        ELSE IF md.val = "dir"
        THEN (IF ~ld.ok THEN Arm(ld, "load_failed")
              ELSE descend_into(ld, idx, H, "dir"))
        ELSE IF md.val = "symlink"
        THEN (IF ld.ok THEN descend_into(ld, idx, H, "symlink")
              ELSE Arm(handle_current_entry(ld.app, H), "symlink_failed"))
        ELSE IF md.val = "file"
        THEN Arm(open_file(a0, entry, F, H), "file")
        ELSE Arm(handle_current_entry(a0, H), "other")

\* The ignored arms resetting the error, as the navigation arms do.
key_ignored_clearing(a) == Arm(Ret(restart_err(a), TRUE, {}), "ignored")

\* handle_event, any other key, and Event::Tick
key_ignored(a) == Arm(Ret(a, TRUE, {}), "ignored")

\* TravApp::new(base_dir): the struct literal is the initial state.  F the
\* failures load_entries meets, H those handle_current_entry meets.
new(a, F, H) ==
    LET ld == load_entries(a, a.cwd_path, Some(1), F)
    IN  IF ~ld.ok THEN Arm(ld, "load_failed")
        ELSE LET h == handle_current_entry(ld.app, H)
             IN  IF ~h.ok THEN Arm(h, "preview_failed") ELSE Arm(h, "started")

-----------------------------------------------------------------------------
(* main.rs: the event loop.  A handler that returns Err ends main with the  *)
(* error; after a handler that returns Ok the loop breaks when exit is set  *)
(* and draws the next frame when it is not.  Drawing the frame and waiting  *)
(* for the next event can fail too, and end main with the error.            *)

\* x and y failing together, for every x of A and y of B.
Both(A, B) == { x \cup y : x \in A, y \in B }

\* get_ok_entries(p) can meet: nothing; read_dir(p) failing; the read of one
\* item of the stream failing (the stream ends there, so one is all it meets).
\* A path that is no directory fails to open whatever is injected.
OpenFaults(p) == { {<<"read_dir", p, c>>} : c \in Errnos }

ListingFaults(p) ==
    IF ~IsDirPath(p) THEN {{}}
    ELSE {{}} \cup OpenFaults(p)
              \cup { {<<"dirent", StreamOf(p)[i], c>>} :
                         i \in 1..Len(StreamOf(p)), c \in Errnos }

\* load_entries(path, _) can meet: the failures of its two listings; the
\* parent is listed only when the listing of path did not fail.
LoadFaults(path) ==
    IF PathParent(path) = None \/ ~IsDirPath(path) THEN ListingFaults(path)
    ELSE OpenFaults(path)
         \cup Both(ListingFaults(path) \ OpenFaults(path),
                   ListingFaults(Unwrap(PathParent(path))))

\* What comes after a metadata query of e that succeeded.
IsFileEntry(e) == Metadata(e, {}).ok /\ Metadata(e, {}).val = "file"

\* handle_current_entry can meet, with the struct being a: the metadata query
\* of the selected entry failing, or else the failure to open it (a regular
\* file) or the first failure of its listing (a directory or a symlink).
PreviewFaults(a) ==
    IF current(a.cwd_entries) = None THEN {{}}
    ELSE LET e == Unwrap(current(a.cwd_entries))
         IN  { {<<"metadata", e, c>>} : c \in Errnos }
             \cup (IF IsFileEntry(e)
                   THEN {{}} \cup { {<<"open", e, c>>} : c \in Errnos }
                   ELSE ListingFaults(e))

\* The Key::Left arm can meet before handle_current_entry: what load_entries
\* of the parent directory meets.
AscendFaults(a) ==
    IF PathParent(a.cwd_path) = None THEN {{}}
    ELSE LoadFaults(Unwrap(PathParent(a.cwd_path)))

\* The Key::Right arm can meet before handle_current_entry: the metadata query
\* of the selected entry failing, or else the launcher failing to spawn (a
\* regular file) or what load_entries of the entry meets (a directory or a
\* symlink).
DescendFaults(a) ==
    IF current(a.cwd_entries) = None THEN {{}}
    ELSE LET e == Unwrap(current(a.cwd_entries))
         IN  { {<<"metadata", e, c>>} : c \in Errnos }
             \cup (IF IsFileEntry(e)
                   THEN {{}} \cup { {<<"spawn", e, c>>} : c \in Errnos }
                   ELSE LoadFaults(e))

NoHandler == [key |-> "none", ok |-> TRUE, clean |-> TRUE, branch |-> "none",
              raised |-> {}]

\* The directories the program may be started in.
StartDirs == LexPaths

Init ==
    /\ pc = "init"
    /\ cwd_path \in StartDirs
    /\ cwd_entries = ListNew
    /\ cwd_idx = None
    /\ parent = None
    /\ parent_idx = None
    /\ child_entries = None
    /\ content = None
    /\ exit = FALSE
    /\ err = None
    /\ last = NoHandler @@ [pre |-> App]

\* The state after a handler that returned r, run on key with the failures F
\* (those met before handle_current_entry and in it, together).
Finish(key, F, r) ==
    /\ pc' = IF ~r.ok THEN "failed" ELSE IF r.app.exit THEN "done" ELSE "draw"
    /\ cwd_path' = r.app.cwd_path
    /\ cwd_entries' = r.app.cwd_entries
    /\ cwd_idx' = r.app.cwd_idx
    /\ parent' = r.app.parent
    /\ parent_idx' = r.app.parent_idx
    /\ child_entries' = r.app.child_entries
    /\ content' = r.app.content
    /\ exit' = r.app.exit
    /\ err' = r.app.err
    /\ last' = [key |-> key, ok |-> r.ok, clean |-> (F = {}), branch |-> r.branch,
                raised |-> r.raised, pre |-> App]

New ==
    /\ pc = "init"
    /\ \E F \in LoadFaults(cwd_path) : \E H \in PreviewFaults(new(App, F, {}).app) :
          Finish("New", F \cup H, new(App, F, H))

\* The top of the loop: terminal.draw shows the struct and changes none of
\* its fields; main then waits in handle_event for the next event.
Draw ==
    /\ pc = "draw"
    /\ pc' = "loop"
    /\ last' = NoHandler @@ [pre |-> App]
    /\ UNCHANGED <<cwd_path, cwd_entries, cwd_idx, parent, parent_idx,
                   child_entries, content, exit, err>>

\* A step of main that returns Err without a handler having run.
Stopped(key) ==
    /\ pc' = "failed"
    /\ last' = [key |-> key, ok |-> FALSE, clean |-> FALSE, branch |-> "stopped",
                raised |-> {}, pre |-> App]
    /\ UNCHANGED <<cwd_path, cwd_entries, cwd_idx, parent, parent_idx,
                   child_entries, content, exit, err>>

\* terminal.draw(..)? returning Err (main.rs:12): main returns the error.
DrawFails == pc = "draw" /\ Stopped("Draw")

\* self.events.next()? returning Err (app.rs:123): handle_event returns the
\* error before its match, the struct untouched, and main returns it.
EventFails == pc = "loop" /\ Stopped("Event")

KeyQuit == pc = "loop" /\ Finish("Quit", {}, key_quit(App))

KeyLeft ==
    /\ pc = "loop"
    /\ \E F \in AscendFaults(App) : \E H \in PreviewFaults(key_left(App, F, {}).app) :
          Finish("Left", F \cup H, key_left(App, F, H))

KeyDown ==
    /\ pc = "loop"
    /\ \E s \in next_sels(restart_err(App).cwd_entries) :
          \E H \in PreviewFaults(next_entry(App, s)) :
             Finish("Down", H, key_down(App, H, s))

KeyUp ==
    /\ pc = "loop"
    /\ \E s \in previous_sels(restart_err(App).cwd_entries) :
          \E H \in PreviewFaults(prev_entry(App, s)) :
             Finish("Up", H, key_up(App, H, s))

KeyRight ==
    /\ pc = "loop"
    /\ \E F \in DescendFaults(App) : \E H \in PreviewFaults(key_right(App, F, {}).app) :
          Finish("Right", F \cup H, key_right(App, F, H))

KeyOther == pc = "loop" /\ Finish("Other", {}, key_ignored(App))

Tick == pc = "loop" /\ Finish("Tick", {}, key_ignored(App))

Next ==
    \/ New \/ Draw \/ DrawFails \/ EventFails
    \/ KeyQuit \/ KeyLeft \/ KeyDown \/ KeyUp \/ KeyRight \/ KeyOther \/ Tick

Spec == Init /\ [][Next]_vars

-----------------------------------------------------------------------------
(* What the renderer paints in the preview pane: render_main_view paints    *)
(* it only for a selected entry, and render_entry_info shows child_entries  *)
(* when set, else content when set, else "...".                             *)

Shown(kind, val) == [kind |-> kind, val |-> val]

Preview ==
    IF current(cwd_entries) = None THEN Shown("empty", <<>>)
    ELSE IF child_entries # None THEN Shown("listing", Unwrap(child_entries))
    ELSE IF content # None THEN Shown("text", Unwrap(content))
    ELSE Shown("empty", <<>>)

-----------------------------------------------------------------------------
(* Vocabulary of the claims.                                                *)

NavKeys == {"Up", "Down", "Left", "Right"}

Running == pc \in {"draw", "loop", "done"}

\* The listing of a directory when nothing fails.
Listing(p) == get_ok_entries(p, {}).val

\* The preview the selected entry e calls for when nothing fails.
PreviewOf(e) ==
    LET md == Metadata(e, {})
        ls == get_ok_entries(e, {})
        f == FileOpen(e, {})
    IN  IF ~md.ok THEN Shown("empty", <<>>)
        ELSE IF md.val \in {"dir", "symlink"} /\ ls.ok THEN Shown("listing", ls.val)
        ELSE IF md.val = "file" /\ f.ok THEN Shown("text", Snippet(f.val))
        ELSE Shown("empty", <<>>)

ExpectedPreview ==
    IF current(cwd_entries) = None THEN Shown("empty", <<>>)
    ELSE PreviewOf(Unwrap(current(cwd_entries)))

\* C1: after startup and after every navigation input handled without an I/O
\* failure, the preview pane shows what the currently selected entry calls for:
\* its child listing, its text snippet, or nothing; never what an earlier
\* selection left behind.
C1_PreviewReflectsSelection ==
    (Running /\ last.key \in NavKeys \cup {"New"} /\ last.ok /\ last.clean)
        => Preview = ExpectedPreview

\* C2: when a directory read fails during an Ascend or a Descend, current_path
\* and current_entries are what they were before the input and last_error
\* holds the failure message.
C2_FailedLoadKeepsStateAndReports ==
    (last.key \in {"Left", "Right"} /\ last.branch \in {"load_failed", "symlink_failed"})
        => /\ cwd_path = last.pre.cwd_path
           /\ cwd_entries = last.pre.cwd_entries
           /\ err # None
           /\ \E c \in Errnos \cup {"ENOTDIR"} : Unwrap(err) = IoError(c)

\* C3: after a successful startup the event loop never ends with an error:
\* only startup can fail.
C3_OnlyStartupFails == pc = "failed" => last.key = "New"

\* C4: descending into a directory from selection index k of directory P and
\* then immediately ascending, no read failing in either, gives current_path = P
\* with selection index k.
C4_DescendAscendRoundTrip ==
    (/\ pc = "draw"
     /\ last.key = "Right" /\ last.branch \in {"dir", "symlink"}
     /\ last.ok /\ last.clean)
    => LET up == key_left(App, {}, {}).app
       IN  /\ up.cwd_path = last.pre.cwd_path
           /\ up.cwd_entries.sel = last.pre.cwd_entries.sel

\* C5: the selection is None only when current_entries is empty, and otherwise
\* a valid index.
C5_SelectionValid ==
    Running =>
        /\ (cwd_entries.sel = None) <=> (Len(cwd_entries.items) = 0)
        /\ cwd_entries.sel # None =>
              Unwrap(cwd_entries.sel) \in 0..(Len(cwd_entries.items) - 1)

\* C6: when Descend on a regular file fails to launch the opener, last_error
\* holds the launch failure once the input has been handled.
C6_LaunchFailureReported ==
    (last.key = "Right" /\ last.branch = "file"
        /\ \E m \in last.raised : m.op = "spawn")
        => (err # None /\ \E m \in last.raised : m.op = "spawn" /\ Unwrap(err) = m.msg)

\* C7: after startup on a readable start directory the selection is index 0 and
\* the preview is that entry's, or None when the directory is empty.
C7_StartupSelectsFirst ==
    (last.key = "New" /\ last.ok /\ last.clean)
        => IF Len(cwd_entries.items) = 0
           THEN cwd_entries.sel = None
           ELSE cwd_entries.sel = Some(0) /\ Preview = PreviewOf(cwd_entries.items[1])

\* C8: after a navigation input, last_error is None unless an error was raised
\* while handling that same input.
C8_ErrorClearedByNavigation ==
    last.key \in NavKeys => (err = None \/ \E m \in last.raised : Unwrap(err) = m.msg)

\* C8 witness: a navigation input handled with an error showing, and gone after.
C8_Witness ==
    last.key \in NavKeys /\ last.ok /\ last.pre.err # None /\ err = None

\* C9: a successful Descend on a directory selected at index k of directory P
\* makes the entry's path current, loads its listing with index 0 selected
\* (None when empty), sets the parent snapshot to P with P's listing, records
\* return_index = k, and shows the preview of the new selection.
C9_DescendIntoDirectory ==
    (last.key = "Right" /\ last.branch = "dir" /\ last.ok /\ last.clean)
        => LET P == last.pre.cwd_path
               k == last.pre.cwd_entries.sel
               entry == Unwrap(current(last.pre.cwd_entries))
           IN  /\ cwd_path = entry
               /\ cwd_entries.items = Listing(entry)
               /\ cwd_entries.sel = IF Len(Listing(entry)) = 0 THEN None ELSE Some(0)
               /\ parent = Some([path |-> P, entries |-> Listing(P)])
               /\ parent_idx = k
               /\ current(cwd_entries) # None => Preview = ExpectedPreview

\* C10: after startup and after every successful Ascend or Descend the parent
\* snapshot is the parent of current_path with its listing, and None at the root.
C10_ParentOneLevelUp ==
    (last.ok /\ last.clean
        /\ last.branch \in {"started", "ascended", "dir", "symlink"})
        => parent = IF cwd_path = Root THEN None
                    ELSE Some([path |-> Unwrap(PathParent(cwd_path)),
                               entries |-> Listing(Unwrap(PathParent(cwd_path)))])

\* C11: Descend on a selected regular file leaves current_path,
\* current_entries, the selection index, the parent snapshot and return_index
\* as they were, whether or not the launch succeeded.
C11_OpenFileKeepsNavigation ==
    (last.key = "Right" /\ last.branch = "file")
        => /\ cwd_path = last.pre.cwd_path
           /\ cwd_entries = last.pre.cwd_entries
           /\ cwd_idx = last.pre.cwd_idx
           /\ parent = last.pre.parent
           /\ parent_idx = last.pre.parent_idx

\* C11 witness: a Descend on the regular file /g whose launch failed.
C11_Witness ==
    /\ last.key = "Right" /\ last.branch = "file" /\ last.ok
    /\ \E m \in last.raised : m.op = "spawn"
    /\ current(cwd_entries) = Some(<<"g">>)

\* C12: Quit sets the exit flag and changes nothing else, and after it no
\* further input is handled: the loop has ended, with Ok.
C12_QuitStopsTheLoop ==
    exit => /\ last.key = "Quit"
            /\ pc = "done"
            /\ App = [last.pre EXCEPT !.exit = TRUE]

\* C12 witness: Quit handled while an error was showing.
C12_Witness == last.key = "Quit" /\ pc = "done" /\ exit /\ err # None

\* C13: a Tick or an unrecognized key leaves the whole engine state as it was,
\* last_error, preview and exit flag included.
C13_IgnoredInputsChangeNothing ==
    last.key \in {"Tick", "Other"} => (App = last.pre /\ pc = "draw")

\* C13 witness: a Tick handled while an error was showing.
C13_Witness == last.key = "Tick" /\ err # None /\ child_entries # None

\* The index the handler that ran last asked load_entries to select.
Requested ==
    CASE last.key = "New" -> Some(1)
      [] last.key = "Left" -> last.pre.parent_idx
      [] last.key = "Right" -> Some(0)
      [] OTHER -> None

\* The arms in which load_entries returned Ok and the handler went on to its end.
Loaded == last.branch \in {"started", "ascended", "dir", "symlink"}

\* C17: a load that asks for an index past the end of the listing does not
\* fail: it selects the last entry, or nothing in an empty directory, whether
\* the index is the startup index or a return_index being restored.
C17_PastTheEndSelectsLast ==
    /\ (Loaded /\ Requested # None
            /\ Unwrap(Requested) >= Len(cwd_entries.items))
        => /\ last.ok
           /\ cwd_entries.sel = IF Len(cwd_entries.items) = 0 THEN None
                                ELSE Some(Len(cwd_entries.items) - 1)
           /\ cwd_idx = cwd_entries.sel
    /\ (last.key = "New" /\ last.clean /\ IsDirPath(last.pre.cwd_path)) => last.ok

\* C17 witness: an Ascend that restored a return_index past the end of the
\* parent's listing and selected its last entry.
C17_Witness ==
    /\ last.branch = "ascended"
    /\ Len(cwd_entries.items) > 0
    /\ last.pre.parent_idx # None
    /\ Unwrap(last.pre.parent_idx) >= Len(cwd_entries.items)
    /\ cwd_idx = Some(Len(cwd_entries.items) - 1)

\* An empty directory opened at startup: index 1 asked for, nothing selected.
C17_EmptyStartup ==
    last.branch = "started" /\ Len(cwd_entries.items) = 0 /\ cwd_idx = None

\* C18: an Ascend handled at the filesystem root leaves current_path,
\* current_entries, the selection index (and the parent snapshot and the exit
\* flag) as they were; return_index is None afterwards, and what else differs is
\* what recomputing the preview of the selected entry changes.
C18_AscendAtRootStays ==
    (last.key = "Left" /\ last.pre.cwd_path = Root)
        => /\ cwd_path = Root
           /\ cwd_entries = last.pre.cwd_entries
           /\ cwd_idx = last.pre.cwd_idx
           /\ parent = last.pre.parent
           /\ exit = last.pre.exit
           /\ parent_idx = None
           /\ last.branch \in {"root", "preview_failed"}
           /\ last.clean =>
                App = [handle_current_entry(restart_err(last.pre), {}).app
                          EXCEPT !.parent_idx = None]

\* C18 witness: an Ascend handled at / with its second entry selected.
C18_Witness ==
    /\ last.key = "Left" /\ last.branch = "root"
    /\ cwd_path = Root /\ cwd_idx = Some(1) /\ cwd_entries.sel = Some(1)
    /\ child_entries # None

\* items is what a listing of p can return: its stream up to some item.
IsListingOf(items, p) ==
    /\ Len(items) <= Len(StreamOf(p))
    /\ items = SubSeq(StreamOf(p), 1, Len(items))

\* C19: in every state the program runs in, cwd_idx is the index the
\* cwd_entries cursor holds, and cwd_entries is a listing read for cwd_path.
C19_CursorMirroredAndListingCurrent ==
    Running => /\ cwd_idx = current_idx(cwd_entries)
               /\ IsListingOf(cwd_entries.items, cwd_path)

\* The state a swallowed half-done load leaves: the listing of another
\* directory under the old path, the old index beside a cursor set to 0.
C19_HalfLoaded ==
    /\ pc = "draw"
    /\ last.key = "Right" /\ last.branch = "symlink_failed"
    /\ cwd_path = last.pre.cwd_path
    /\ ~IsListingOf(cwd_entries.items, cwd_path)
    /\ cwd_idx # current_idx(cwd_entries)

\* C20 as claimed: return_index is Some(k) only when the directory that is now
\* the parent of current_path was left by a Descend from its entry k, which
\* is current_path; after every Ascend handled return_index is None.
C20_ReturnIndexIsWhereWeCameFrom ==
    Running =>
        /\ parent_idx # None =>
              /\ cwd_path # Root
              /\ Unwrap(parent_idx) < Len(StreamOf(Unwrap(PathParent(cwd_path))))
              /\ StreamOf(Unwrap(PathParent(cwd_path)))[Unwrap(parent_idx) + 1] = cwd_path
        /\ (last.key = "Left" /\ last.ok) => parent_idx = None

-----------------------------------------------------------------------------
(* The file preview on its own: handle_current_entry's regular-file arm     *)
(* (app.rs:99-110) run on a file that opened, for every file of up to       *)
(* LongLen lines with no undecodable line or with one.  last holds the      *)
(* file's lines, content the String stored.                                 *)

\* The longest file tried.
LongLen == 130

\* Where the undecodable line of a file may be (0: nowhere).
BadLineAt == {0, 2, TakeLines, TakeLines + 1}

FileOf(n, b) == [i \in 1..n |-> IF i = b THEN BadLine ELSE 200 + i]

SnippetInit ==
    /\ pc = "file"
    /\ \E n \in 0..LongLen : \E b \in BadLineAt : last = [lines |-> FileOf(n, b)]
    /\ cwd_path = Root
    /\ cwd_entries = ListNew
    /\ cwd_idx = None
    /\ parent = None
    /\ parent_idx = None
    /\ child_entries = None
    /\ content = None
    /\ exit = FALSE
    /\ err = None

\* app.rs:100-111 once the file is open.
TakeSnippet ==
    /\ pc = "file"
    /\ pc' = "snipped"
    /\ content' = Some(Snippet(last.lines))
    /\ child_entries' = None
    /\ err' = None
    /\ UNCHANGED <<cwd_path, cwd_entries, cwd_idx, parent, parent_idx, exit, last>>

SnippetSpec == SnippetInit /\ [][TakeSnippet]_vars

\* The first m lines of a file, one after the other with NL between them.
Joined(lines, m) ==
    [i \in 1..(IF m = 0 THEN 0 ELSE 2 * m - 1) |->
        IF i % 2 = 1 THEN lines[(i + 1) \div 2] ELSE NL]

\* c holds those of the first m lines of a file that decode, in order, each
\* followed by NL, and nothing else.
IsTerminated(c, lines, m) ==
    LET K == { i \in 1..m : lines[i] # BadLine }
        Rank(i) == Cardinality({ j \in K : j <= i })
    IN  /\ Len(c) = 2 * Cardinality(K)
        /\ \A i \in K : c[2 * Rank(i) - 1] = lines[i]
        /\ \A r \in 1..Cardinality(K) : c[2 * r] = NL

\* C14 as claimed: the snippet of a file of n lines is its first min(n, 128)
\* lines, in order, joined by newlines.
C14_SnippetIsFirstLinesJoined ==
    pc = "snipped"
        => content = Some(Joined(last.lines, Min(Len(last.lines), TakeLines)))

\* C14 as amended: the snippet of a file of n lines is those of its first
\* min(n, 128) lines that decode, in order, each followed by a newline; no line
\* beyond the 128th is in it.
C14_SnippetIsFirstLinesTerminated ==
    pc = "snipped"
        => /\ content # None
           /\ IsTerminated(Unwrap(content), last.lines,
                           Min(Len(last.lines), TakeLines))
           /\ \A i \in (TakeLines + 1)..Len(last.lines) :
                 \A j \in 1..Len(Unwrap(content)) : Unwrap(content)[j] # last.lines[i]

\* C14 witness: the snippet of a file longer than 128 lines with an undecodable
\* line among the first 128.
C14_Witness ==
    /\ pc = "snipped"
    /\ Len(last.lines) > TakeLines
    /\ last.lines[2] = BadLine
    /\ Len(Unwrap(content)) = 2 * (TakeLines - 1)

-----------------------------------------------------------------------------
(* The directory listing on its own: get_ok_entries (entry.rs:71-80) called *)
(* on every path the program can name, with the directory failing to open  *)
(* or not, and any of its entries failing to be read or to give metadata.  *)
(* cwd_path holds the path listed, last the failures, child_entries the    *)
(* Vec returned and err the error returned.                                *)

ListFaults(p) ==
    { R \cup D \cup M :
        R \in {{}} \cup OpenFaults(p),
        D \in SUBSET { <<"dirent", StreamOf(p)[i], "EACCES">> : i \in 1..Len(StreamOf(p)) },
        M \in SUBSET { <<"metadata", StreamOf(p)[i], "EACCES">> : i \in 1..Len(StreamOf(p)) } }

ListInit ==
    /\ pc = "list"
    /\ cwd_path \in LexPaths
    /\ \E F \in ListFaults(cwd_path) : last = [faults |-> F]
    /\ cwd_entries = ListNew
    /\ cwd_idx = None
    /\ parent = None
    /\ parent_idx = None
    /\ child_entries = None
    /\ content = None
    /\ exit = FALSE
    /\ err = None

\* let r = get_ok_entries(path)
ListDir ==
    /\ pc = "list"
    /\ pc' = "listed"
    /\ LET r == get_ok_entries(cwd_path, last.faults)
       IN  /\ child_entries' = IF r.ok THEN Some(r.val) ELSE None
           /\ err' = IF r.ok THEN None ELSE Some(r.err)
    /\ UNCHANGED <<cwd_path, cwd_entries, cwd_idx, parent, parent_idx, content, exit, last>>

ListSpec == ListInit /\ [][ListDir]_vars

\* The positions of the stream whose read does not fail.
ReadOk(p, F) == { i \in 1..Len(StreamOf(p)) : ~Fails("dirent", StreamOf(p)[i], F) }

\* C15: a listing fails only when the directory itself cannot be opened;
\* otherwise it holds, in stream order, exactly the entries whose read does not
\* fail, those whose metadata query would fail included: an entry whose read
\* fails is left out and costs the listing nothing else.
C15_ListingKeepsReadableEntries ==
    pc = "listed" =>
        LET p == cwd_path
            F == last.faults
            opens == IsDirPath(p) /\ ~Fails("read_dir", p, F)
        IN  /\ (child_entries # None) <=> opens
            /\ (err # None) <=> ~opens
            /\ opens =>
                 LET v == Unwrap(child_entries)
                     Rank(i) == Cardinality({ j \in ReadOk(p, F) : j <= i })
                 IN  /\ Len(v) = Cardinality(ReadOk(p, F))
                     /\ \A i \in ReadOk(p, F) : v[Rank(i)] = StreamOf(p)[i]

\* A listing of / cut at its second entry, whose read failed: the two entries
\* after it are lost with it.
C15_CutListing ==
    /\ pc = "listed"
    /\ cwd_path = Root
    /\ last.faults = {<<"dirent", <<"l">>, "EACCES">>}
    /\ child_entries = Some(<< <<"d">> >>)

-----------------------------------------------------------------------------
(* The cursor on its own: from a chosen starting index, next_entry (or      *)
(* prev_entry) over and over, on a bare list of up to MaxLen entries        *)
(* (pc = "cursor") and, through the whole Key::Down / Key::Up handlers, in  *)
(* the directories of the tree (pc = "loop").  last holds the starting      *)
(* index, the direction and the number of steps taken.                      *)

MaxLen == 6

\* A list of n distinct entries.
Entries(n) == [i \in 1..n |-> [j \in 1..i |-> "x"]]

\* The struct literal of TravApp::new for the directory p.
Fresh(p) == [cwd_path |-> p, cwd_entries |-> ListNew, cwd_idx |-> None,
             parent |-> None, parent_idx |-> None, child_entries |-> None,
             content |-> None, exit |-> FALSE, err |-> None]

IsApp(a) ==
    /\ cwd_path = a.cwd_path
    /\ cwd_entries = a.cwd_entries
    /\ cwd_idx = a.cwd_idx
    /\ parent = a.parent
    /\ parent_idx = a.parent_idx
    /\ child_entries = a.child_entries
    /\ content = a.content
    /\ exit = a.exit
    /\ err = a.err

BecomesApp(a) ==
    /\ cwd_path' = a.cwd_path
    /\ cwd_entries' = a.cwd_entries
    /\ cwd_idx' = a.cwd_idx
    /\ parent' = a.parent
    /\ parent_idx' = a.parent_idx
    /\ child_entries' = a.child_entries
    /\ content' = a.content
    /\ exit' = a.exit
    /\ err' = a.err

\* The engine in directory p with index k selected and its preview computed.
Browsing(p, k) ==
    handle_current_entry(load_entries(Fresh(p), p, Some(k), {}).app, {}).app

CursorInit ==
    /\ \E dir \in {"next", "previous"} :
        \/ \E n \in 0..MaxLen : \E k \in 0..(n - 1) :
              /\ pc = "cursor"
              /\ IsApp([Fresh(Root) EXCEPT !.cwd_entries = select(with_items(Entries(n)), Some(k)),
                                           !.cwd_idx = Some(k)])
              /\ last = [start |-> k, dir |-> dir, count |-> 0]
        \/ \E p \in { q \in LexPaths : IsDirPath(q) } : \E k \in 0..(Len(StreamOf(p)) - 1) :
              /\ pc = "loop"
              /\ IsApp(Browsing(p, k))
              /\ last = [start |-> k, dir |-> dir, count |-> 0]

Count == last.count < Len(cwd_entries.items) /\ last' = [last EXCEPT !.count = @ + 1]

\* self.next_entry()
CursorNext ==
    /\ pc = "cursor" /\ last.dir = "next" /\ Count
    /\ \E s \in next_sels(cwd_entries) : BecomesApp(next_entry(App, s))
    /\ pc' = pc

\* self.prev_entry()
CursorPrevious ==
    /\ pc = "cursor" /\ last.dir = "previous" /\ Count
    /\ \E s \in previous_sels(cwd_entries) : BecomesApp(prev_entry(App, s))
    /\ pc' = pc

\* handle_event on Key::Down, the directory as it was
MoveDown ==
    /\ pc = "loop" /\ last.dir = "next" /\ Count
    /\ \E s \in next_sels(restart_err(App).cwd_entries) :
       \E H \in PreviewFaults(next_entry(App, s)) :
          LET r == key_down(App, H, s)
          IN  BecomesApp(r.app) /\ pc' = IF r.ok THEN "loop" ELSE "failed"

\* handle_event on Key::Up, the directory as it was
MoveUp ==
    /\ pc = "loop" /\ last.dir = "previous" /\ Count
    /\ \E s \in previous_sels(restart_err(App).cwd_entries) :
       \E H \in PreviewFaults(prev_entry(App, s)) :
          LET r == key_up(App, H, s)
          IN  BecomesApp(r.app) /\ pc' = IF r.ok THEN "loop" ELSE "failed"

CursorStep == CursorNext \/ CursorPrevious \/ MoveDown \/ MoveUp

CursorSpec == CursorInit /\ [][CursorStep]_vars

\* C16: from any starting index of a sequence of n > 0 entries, n next() calls
\* or n previous() calls bring the selection back to the starting index; so do
\* n MoveDown or n MoveUp inputs handled in a directory that stays as it was.
C16_CursorWrapsAround ==
    (pc \in {"cursor", "loop"} /\ last.count = Len(cwd_entries.items)
        /\ Len(cwd_entries.items) > 0)
        => (cwd_entries.sel = Some(last.start) /\ cwd_idx = Some(last.start))

\* C16 witness: the last of four Down inputs handled in /, which was started
\* on its last entry, so the cursor wrapped on the first of them.
C16_Witness ==
    /\ pc = "loop" /\ last.dir = "next" /\ last.count = 4 /\ last.start = 3
    /\ cwd_path = Root /\ Len(cwd_entries.items) = 4
    /\ cwd_idx = Some(3)

=============================================================================
